---- MODULE Spec2Model ----
(***************************************************************************)
(* A model of pingo v2 (src/v2/pingo.go): the Client/Request builder, the  *)
(* execution engine (do, DoCtx, DoStream), the timeout-derived context and *)
(* the buffered and streamed response readers.                             *)
(*                                                                         *)
(* http.Header and url.Values are Go maps, i.e. references.  They live in  *)
(* the heaps hheap and qheap; a client or request field of that type holds *)
(* the reference (an index into the heap), exactly as the Go field holds   *)
(* the map header.                                                         *)
(*                                                                         *)
(* The transport (net/http) and the server are the environment.  The       *)
(* transport honours the context bound to the outbound request, as         *)
(* http.NewRequestWithContext documents: once that context is done a       *)
(* pending round trip fails and no further response byte is delivered.     *)
(***************************************************************************)
EXTENDS Integers, Sequences, FiniteSets, TLC

\* ------------------------------------------------------------------ bounds
NumRequests == 2
MaxTimeout == 2
MaxBody == 2
MaxValues == 2
MaxChunk == 2

\* --------------------------------------------------------------- constants
Nil == "nil"

headerContentType == "Content-Type"
headerAccept == "Accept"
headerCacheControl == "Cache-Control"
headerConnection == "Connection"
headerUserAgent == "User-Agent"
headerUserAgentDefaultValue == "pingo v2.0.0 (github.com/mauserzjeh/pingo)"

ContentTypeJson == "application/json"
ContentTypeXml == "application/xml"
ContentTypeFormUrlEncoded == "application/x-www-form-urlencoded"
ContentTypeTextEventStream == "text/event-stream"
ContentTypeMultipart == "multipart/form-data; boundary=..."

ErrRequestTimedOut == "request timed out"
ContextCanceled == "context canceled"

MethodGet == "GET"

\* ------------------------------------------------------------------ inputs
Requests == 1..NumRequests
Refs == 0..NumRequests

UserHeaderKey == "X-Key"
HeaderKeys == {headerUserAgent, headerContentType, headerAccept,
               headerCacheControl, headerConnection, UserHeaderKey}
UserHeaderKeys == {UserHeaderKey}
QueryKeys == {"q"}
Values == {"a", "b"}

BaseUrls == {<< >>, <<"h">>, <<"h", "/">>}
Paths == {<< >>, <<"/", "p">>}
Methods == {"", "POST", "B D"}
Timeouts == (-1)..MaxTimeout
BodyErrors == {"E1", "E2"}
Statuses == {199, 200, 399, 400, 500}

\* ------------------------------------------------------------------- state
VARIABLES
    client,      \* the client struct
    hheap,       \* http.Header maps, by reference
    qheap,       \* url.Values maps, by reference
    req,         \* the request structs
    pc,          \* where the caller of each request stands
    mode,        \* which execution method was called on the request
    callerCtx,   \* the context the caller passed to the execution method
    scope,       \* the context derived by context.WithTimeoutCause
    cancelCalls, \* how often the library invoked the derived cancel func
    wire,        \* the outbound request the transport was handed
    dispatched,  \* how often the request was handed to the transport
    tres,        \* what the transport returned
    arrived,     \* response body bytes the connection has delivered
    bodyRead,    \* response body bytes the library has read
    bodyClosed,  \* resp.Body.Close() was called
    ret,         \* what the execution method returned
    stream,      \* the responseStream DoStream returned
    lastRecv,    \* what the latest Recv or RecvFunc returned
    received,    \* the bytes the caller of Recv and RecvFunc has got so far
    respErr,     \* what IsError returned
    await,       \* the channel DoAsync returned and what its caller got from it
    logs         \* the records the logger of the client has been given

cfgVars == <<client, hheap, qheap, req>>
execVars == <<mode, callerCtx, scope, cancelCalls, wire, dispatched, tres,
              arrived, bodyRead, bodyClosed, ret, stream, lastRecv, received, respErr, await, logs>>
vars == <<client, hheap, qheap, req, pc, mode, callerCtx, scope, cancelCalls,
          wire, dispatched, tres, arrived, bodyRead, bodyClosed, ret, stream,
          lastRecv, received, respErr, await, logs>>

\* ------------------------------------------- http.Header / url.Values maps
\* A map gives every key its slice of values; an absent key has none.
EmptyMap(keys) == [k \in keys |-> << >>]

\* Set keeping the values the key has
MapSet_keeps(m, k, v) == [m EXCEPT ![k] = Append(@, v)]

\* http.Header.Set / url.Values.Set
MapSet(m, k, v) == [m EXCEPT ![k] = <<v>>]

\* http.Header.Add / url.Values.Add
MapAdd(m, k, v) == [m EXCEPT ![k] = Append(@, v)]

\* http.Header.Del / url.Values.Del
MapDel(m, k) == [m EXCEPT ![k] = << >>]

\* setValues: one key of src applied to dst
setValue(dst, k, vs) ==
    IF Len(vs) = 0 \/ vs[1] = "" THEN MapDel(dst, k) ELSE MapSet(dst, k, vs[1])

RECURSIVE appendAll(_, _, _)
appendAll(dst, k, vs) ==
    IF vs = << >> THEN dst ELSE appendAll(MapAdd(dst, k, Head(vs)), k, Tail(vs))

\* setValues(src, dst): every key of src set in dst, or deleted when empty
RECURSIVE setValues(_, _, _)
setValues(src, dst, keys) ==
    IF keys = {} THEN dst
    ELSE LET k == CHOOSE x \in keys : TRUE
         IN  setValues(src, setValue(dst, k, src[k]), keys \ {k})

\* addValues(src, dst): every value of every key of src added to dst
RECURSIVE addValues(_, _, _)
addValues(src, dst, keys) ==
    IF keys = {} THEN dst
    ELSE LET k == CHOOSE x \in keys : TRUE
         IN  addValues(src, appendAll(dst, k, src[k]), keys \ {k})

\* textproto.CanonicalMIMEHeaderKey, which http.Header.Set, Add and Del
\* apply to the key they are given
CanonicalMIMEHeaderKey(k) == IF k = "x-key" THEN "X-Key" ELSE k

\* The orders in which a range over a map with these keys may visit them
Orders(keys) ==
    {o \in [1..Cardinality(keys) -> keys] :
        \A i, j \in 1..Cardinality(keys) : i # j => o[i] # o[j]}

RECURSIVE setHeaderValues(_, _, _)
\* setValues(src, dst) of an http.Header, the keys of src visited in order
setHeaderValues(src, dst, order) ==
    IF order = << >> THEN dst
    ELSE setHeaderValues(src, setValue(dst, CanonicalMIMEHeaderKey(Head(order)),
                                       src[Head(order)]), Tail(order))

RECURSIVE addHeaderValues(_, _, _)
\* addValues(src, dst) of an http.Header, the keys of src visited in order
addHeaderValues(src, dst, order) ==
    IF order = << >> THEN dst
    ELSE addHeaderValues(src, appendAll(dst, CanonicalMIMEHeaderKey(Head(order)),
                                        src[Head(order)]), Tail(order))

\* The maps a caller passes to SetHeaders/AddHeaders/SetQueryParams/...:
\* the keys it names (a key may carry an empty slice, or an empty string).
ArgSlices == {<< >>, <<"">>, <<"a", "b">>} \cup {<<v>> : v \in Values}
ArgMaps(keys) == [keys -> ArgSlices]
ArgKeys(keys) == SUBSET keys \ {{}}

\* ------------------------------------------------------------------ errors
\* An error value: what it is and, for fmt.Errorf("...%w", cause), what it
\* wraps.
NoError == [err |-> Nil, wraps |-> Nil]
Error(e) == [err |-> e, wraps |-> Nil]
Wrap(cause) == [err |-> "fmt.Errorf", wraps |-> cause]
\* errors.Is
ErrorsIs(e, target) == e.err = target \/ e.wraps = target

\* ------------------------------------------------------------------ client
\* newDefaultClient
newDefaultClient ==
    [baseUrl |-> << >>, debug |-> FALSE, debugBody |-> FALSE,
     headers |-> 0, queryParams |-> 0, timeout |-> 0, isLogEnabled |-> TRUE]

NoRequest == [created |-> FALSE]

NotReturned == [returned |-> FALSE]
NoScope == [state |-> "none", remaining |-> 0]
NoTransport == [kind |-> "none"]
\* No responseStream yet, and the one DoStream returns: its reader is a
\* bufio.Reader with nothing buffered and no error kept
NoStream == [open |-> FALSE, closed |-> FALSE, buffered |-> 0, readerErr |-> NoError]
NewStream == [open |-> TRUE, closed |-> FALSE, buffered |-> 0, readerErr |-> NoError]
NoWire == [method |-> Nil]
NoRecv == [called |-> FALSE]
NotAsked == [called |-> FALSE]
\* The channel of DoAsync: nothing sent, nothing in it, nothing received
NoAwait == [sent |-> 0, chan |-> << >>, got |-> [received |-> FALSE]]

Init ==
    /\ client = newDefaultClient
    /\ hheap = [i \in Refs |->
                  IF i = 0
                  THEN MapSet(EmptyMap(HeaderKeys), headerUserAgent,
                              headerUserAgentDefaultValue)
                  ELSE EmptyMap(HeaderKeys)]
    /\ qheap = [i \in Refs |-> EmptyMap(QueryKeys)]
    /\ req = [r \in Requests |-> NoRequest]
    /\ pc = [r \in Requests |-> "none"]
    /\ mode = [r \in Requests |-> "none"]
    /\ callerCtx = [r \in Requests |-> "live"]
    /\ scope = [r \in Requests |-> NoScope]
    /\ cancelCalls = [r \in Requests |-> 0]
    /\ wire = [r \in Requests |-> NoWire]
    /\ dispatched = [r \in Requests |-> 0]
    /\ tres = [r \in Requests |-> NoTransport]
    /\ arrived = [r \in Requests |-> 0]
    /\ bodyRead = [r \in Requests |-> 0]
    /\ bodyClosed = [r \in Requests |-> FALSE]
    /\ ret = [r \in Requests |-> NotReturned]
    /\ stream = [r \in Requests |-> NoStream]
    /\ lastRecv = [r \in Requests |-> NoRecv]
    /\ received = [r \in Requests |-> << >>]
    /\ respErr = [r \in Requests |-> NotAsked]
    /\ await = [r \in Requests |-> NoAwait]
    /\ logs = << >>

\* (c *client) SetBaseUrl
ClientSetBaseUrl(u) ==
    /\ client' = [client EXCEPT !.baseUrl = u]
    /\ UNCHANGED <<hheap, qheap, req, pc, execVars>>

\* (c *client) SetHeaders
ClientSetHeaders(keys, src) ==
    /\ \E order \in Orders(keys) :
          hheap' = [hheap EXCEPT ![client.headers] =
                       setHeaderValues(src, @, order)]
    /\ UNCHANGED <<client, qheap, req, pc, execVars>>

\* (c *client) SetHeader
ClientSetHeader(k, v) ==
    /\ hheap' = [hheap EXCEPT ![client.headers] = MapSet(@, k, v)]
    /\ UNCHANGED <<client, qheap, req, pc, execVars>>

\* (c *client) AddHeaders
ClientAddHeaders(keys, src) ==
    /\ \E order \in Orders(keys) :
          /\ hheap' = [hheap EXCEPT ![client.headers] =
                          addHeaderValues(src, @, order)]
          /\ \A k \in HeaderKeys : Len(hheap'[client.headers][k]) <= MaxValues
    /\ UNCHANGED <<client, qheap, req, pc, execVars>>

\* (c *client) AddHeader
ClientAddHeader(k, v) ==
    /\ Len(hheap[client.headers][k]) < MaxValues
    /\ hheap' = [hheap EXCEPT ![client.headers] = MapAdd(@, k, v)]
    /\ UNCHANGED <<client, qheap, req, pc, execVars>>

\* (c *client) SetQueryParams
ClientSetQueryParams(keys, src) ==
    /\ qheap' = [qheap EXCEPT ![client.queryParams] = setValues(src, @, keys)]
    /\ UNCHANGED <<client, hheap, req, pc, execVars>>

\* (c *client) SetQueryParam
ClientSetQueryParam(k, v) ==
    /\ qheap' = [qheap EXCEPT ![client.queryParams] = MapSet(@, k, v)]
    /\ UNCHANGED <<client, hheap, req, pc, execVars>>

\* (c *client) AddQueryParams
ClientAddQueryParams(keys, src) ==
    /\ \A k \in keys : Len(qheap[client.queryParams][k]) + Len(src[k]) <= MaxValues
    /\ qheap' = [qheap EXCEPT ![client.queryParams] = addValues(src, @, keys)]
    /\ UNCHANGED <<client, hheap, req, pc, execVars>>

\* (c *client) AddQueryParam
ClientAddQueryParam(k, v) ==
    /\ Len(qheap[client.queryParams][k]) < MaxValues
    /\ qheap' = [qheap EXCEPT ![client.queryParams] = MapAdd(@, k, v)]
    /\ UNCHANGED <<client, hheap, req, pc, execVars>>

\* (c *client) SetTimeout
ClientSetTimeout(t) ==
    /\ client' = [client EXCEPT !.timeout = t]
    /\ UNCHANGED <<hheap, qheap, req, pc, execVars>>

\* (c *client) SetDebug
ClientSetDebug(debug, includeBody) ==
    /\ client' = [client EXCEPT !.debug = debug, !.debugBody = includeBody]
    /\ UNCHANGED <<hheap, qheap, req, pc, execVars>>

\* (c *client) SetLogEnabled
ClientSetLogEnabled(enable) ==
    /\ client' = [client EXCEPT !.isLogEnabled = enable]
    /\ UNCHANGED <<hheap, qheap, req, pc, execVars>>

\* (c *client) NewRequest: the struct literal.  headers and queryParams
\* receive the client's maps themselves, i.e. the same references.
newRequest(c) ==
    [created |-> TRUE, method |-> MethodGet, baseUrl |-> c.baseUrl,
     path |-> << >>, headers |-> c.headers, queryParams |-> c.queryParams,
     timeout |-> c.timeout, body |-> Nil, bodyErr |-> Nil, cancel |-> Nil,
     ctx |-> Nil, debug |-> c.debug, debugBody |-> c.debugBody,
     isLogEnabled |-> c.isLogEnabled]

\* (c *client) NewRequest
NewRequest(r) ==
    /\ pc[r] = "none"
    /\ req' = [req EXCEPT ![r] = newRequest(client)]
    /\ pc' = [pc EXCEPT ![r] = "builder"]
    /\ UNCHANGED <<client, hheap, qheap, execVars>>

\* ----------------------------------------------------------------- request
\* (r *request) SetDebug
SetDebug(r, debug, includeBody) ==
    /\ pc[r] = "builder"
    /\ req' = [req EXCEPT ![r].debug = debug, ![r].debugBody = includeBody]
    /\ UNCHANGED <<client, hheap, qheap, pc, execVars>>

\* (r *request) SetLogEnabled
SetLogEnabled(r, enabled) ==
    /\ pc[r] = "builder"
    /\ req' = [req EXCEPT ![r].isLogEnabled = enabled]
    /\ UNCHANGED <<client, hheap, qheap, pc, execVars>>

\* (r *request) SetMethod: the empty method is ignored
SetMethod(r, method) ==
    /\ pc[r] = "builder"
    /\ req' = IF method # "" THEN [req EXCEPT ![r].method = method] ELSE req
    /\ UNCHANGED <<client, hheap, qheap, pc, execVars>>

\* (r *request) SetBaseUrl
SetBaseUrl(r, u) ==
    /\ pc[r] = "builder"
    /\ req' = [req EXCEPT ![r].baseUrl = u]
    /\ UNCHANGED <<client, hheap, qheap, pc, execVars>>

\* (r *request) SetPath
SetPath(r, p) ==
    /\ pc[r] = "builder"
    /\ req' = [req EXCEPT ![r].path = p]
    /\ UNCHANGED <<client, hheap, qheap, pc, execVars>>

\* (r *request) SetHeaders
SetHeaders(r, keys, src) ==
    /\ pc[r] = "builder"
    /\ \E order \in Orders(keys) :
          hheap' = [hheap EXCEPT ![req[r].headers] =
                       setHeaderValues(src, @, order)]
    /\ UNCHANGED <<client, qheap, req, pc, execVars>>

\* (r *request) SetHeader
SetHeader(r, k, v) ==
    /\ pc[r] = "builder"
    /\ hheap' = [hheap EXCEPT ![req[r].headers] = MapSet(@, k, v)]
    /\ UNCHANGED <<client, qheap, req, pc, execVars>>

\* (r *request) AddHeaders
AddHeaders(r, keys, src) ==
    /\ pc[r] = "builder"
    /\ \E order \in Orders(keys) :
          /\ hheap' = [hheap EXCEPT ![req[r].headers] =
                          addHeaderValues(src, @, order)]
          /\ \A k \in HeaderKeys : Len(hheap'[req[r].headers][k]) <= MaxValues
    /\ UNCHANGED <<client, qheap, req, pc, execVars>>

\* (r *request) AddHeader
AddHeader(r, k, v) ==
    /\ pc[r] = "builder"
    /\ Len(hheap[req[r].headers][k]) < MaxValues
    /\ hheap' = [hheap EXCEPT ![req[r].headers] = MapAdd(@, k, v)]
    /\ UNCHANGED <<client, qheap, req, pc, execVars>>

\* (r *request) SetQueryParams
SetQueryParams(r, keys, src) ==
    /\ pc[r] = "builder"
    /\ qheap' = [qheap EXCEPT ![req[r].queryParams] = setValues(src, @, keys)]
    /\ UNCHANGED <<client, hheap, req, pc, execVars>>

\* (r *request) SetQueryParam
SetQueryParam(r, k, v) ==
    /\ pc[r] = "builder"
    /\ qheap' = [qheap EXCEPT ![req[r].queryParams] = MapSet(@, k, v)]
    /\ UNCHANGED <<client, hheap, req, pc, execVars>>

\* (r *request) AddQueryParams
AddQueryParams(r, keys, src) ==
    /\ pc[r] = "builder"
    /\ \A k \in keys : Len(qheap[req[r].queryParams][k]) + Len(src[k]) <= MaxValues
    /\ qheap' = [qheap EXCEPT ![req[r].queryParams] = addValues(src, @, keys)]
    /\ UNCHANGED <<client, hheap, req, pc, execVars>>

\* (r *request) AddQueryParam
AddQueryParam(r, k, v) ==
    /\ pc[r] = "builder"
    /\ Len(qheap[req[r].queryParams][k]) < MaxValues
    /\ qheap' = [qheap EXCEPT ![req[r].queryParams] = MapAdd(@, k, v)]
    /\ UNCHANGED <<client, hheap, req, pc, execVars>>

\* (r *request) SetTimeout
SetTimeout(r, t) ==
    /\ pc[r] = "builder"
    /\ req' = [req EXCEPT ![r].timeout = t]
    /\ UNCHANGED <<client, hheap, qheap, pc, execVars>>

\* ------------------------------------------------------------ body setters
\* What an encoder (json.Marshal, xml.Marshal, the BodyCustom callback,
\* multipartFormFile.write) hands back: the bytes, or the error.
Encoded(b) == [body |-> b, err |-> Nil]
Failed(e) == [body |-> Nil, err |-> e]
EncodeResults(tag) == {Encoded(tag)} \cup {Failed(e) : e \in BodyErrors}

\* resetBody clearing the body alone
resetBody_keepsErr(rq) == [rq EXCEPT !.body = Nil]

\* (r *request) resetBody
resetBody(rq) == [rq EXCEPT !.body = Nil, !.bodyErr = Nil]

\* The tail of a body setter that drops the error of the encoder
storeBody_dropsErr(rq, enc) ==
    IF enc.err # Nil THEN rq ELSE [rq EXCEPT !.body = enc.body]

\* The tail shared by the body setters: the error is stored and the method
\* returns, otherwise the buffer is stored.
storeBody(rq, enc) ==
    IF enc.err # Nil THEN [rq EXCEPT !.bodyErr = enc.err]
    ELSE [rq EXCEPT !.body = enc.body]

\* (r *request) BodyJson: the header is set before json.Marshal is tried
BodyJson(r, enc) ==
    /\ pc[r] = "builder"
    /\ hheap' = [hheap EXCEPT ![req[r].headers] =
                    MapSet(@, headerContentType, ContentTypeJson)]
    /\ req' = [req EXCEPT ![r] = storeBody(resetBody(@), enc)]
    /\ UNCHANGED <<client, qheap, pc, execVars>>

\* (r *request) BodyXml: the header is set before xml.Marshal is tried
BodyXml(r, enc) ==
    /\ pc[r] = "builder"
    /\ hheap' = [hheap EXCEPT ![req[r].headers] =
                    MapSet(@, headerContentType, ContentTypeXml)]
    /\ req' = [req EXCEPT ![r] = storeBody(resetBody(@), enc)]
    /\ UNCHANGED <<client, qheap, pc, execVars>>

\* (r *request) BodyFormUrlEncoded: url.Values.Encode cannot fail
BodyFormUrlEncoded(r) ==
    /\ pc[r] = "builder"
    /\ hheap' = [hheap EXCEPT ![req[r].headers] =
                    MapSet(@, headerContentType, ContentTypeFormUrlEncoded)]
    /\ req' = [req EXCEPT ![r] = storeBody(resetBody(@), Encoded("form"))]
    /\ UNCHANGED <<client, qheap, pc, execVars>>

\* (r *request) BodyCustom: enc is what the callback returned
BodyCustom(r, enc) ==
    /\ pc[r] = "builder"
    /\ req' = [req EXCEPT ![r] = storeBody(resetBody(@), enc)]
    /\ UNCHANGED <<client, hheap, qheap, pc, execVars>>

\* (r *request) BodyRaw
BodyRaw(r) ==
    /\ pc[r] = "builder"
    /\ req' = [req EXCEPT ![r] = storeBody(resetBody(@), Encoded("raw"))]
    /\ UNCHANGED <<client, hheap, qheap, pc, execVars>>

\* (r *request) BodyMultipartForm: the header is set only once the writer
\* has been closed without error
BodyMultipartForm(r, enc) ==
    /\ pc[r] = "builder"
    /\ hheap' = IF enc.err # Nil THEN hheap
                ELSE [hheap EXCEPT ![req[r].headers] =
                        MapSet(@, headerContentType, ContentTypeMultipart)]
    /\ req' = [req EXCEPT ![r] = storeBody(resetBody(@), enc)]
    /\ UNCHANGED <<client, qheap, pc, execVars>>

\* ------------------------------------------------------------ the contexts
\* r.ctx is done
CtxDone(r) ==
    IF req[r].ctx = "scope" THEN scope[r].state \in {"expired", "canceled"}
    ELSE callerCtx[r] = "canceled"

\* The cause of a done r.ctx taken to be the timeout whatever ended it
CtxCause_timeout(r) == ErrRequestTimedOut

\* context.Cause(r.ctx) of a done r.ctx
CtxCause(r) ==
    IF req[r].ctx = "scope" /\ scope[r].state = "expired"
    THEN ErrRequestTimedOut ELSE ContextCanceled

\* context.Cause(r.ctx): nil as long as r.ctx is not done
CtxErr(r) == IF CtxDone(r) THEN CtxCause(r) ELSE Nil

\* Invoking the CancelFunc of the derived context: a live context becomes
\* canceled, a context that is already done keeps its cause.
canceled(sc) == IF sc.state = "live" THEN [sc EXCEPT !.state = "canceled"] ELSE sc

\* --------------------------------------------------------------- execution
\* strings.TrimRight taking one c off the end at most
TrimRight_once(s, c) ==
    IF s # << >> /\ s[Len(s)] = c THEN SubSeq(s, 1, Len(s) - 1) ELSE s

RECURSIVE TrimRight(_, _)
\* strings.TrimRight(s, c)
TrimRight(s, c) ==
    IF s # << >> /\ s[Len(s)] = c THEN TrimRight(SubSeq(s, 1, Len(s) - 1), c) ELSE s

RECURSIVE TrimLeft(_, _)
\* strings.TrimLeft(s, c)
TrimLeft(s, c) ==
    IF s # << >> /\ s[1] = c THEN TrimLeft(Tail(s), c) ELSE s

\* (r *request) requestUrl
requestUrl(rq) ==
    LET baseUrl == TrimRight(rq.baseUrl, "/")
        path == TrimLeft(rq.path, "/")
    IN  IF path = << >> THEN baseUrl
        ELSE IF baseUrl = << >> THEN path
        ELSE baseUrl \o <<"/">> \o path

\* requestBody without the check of r.bodyErr
requestBody_ignoresErr(rq) ==
    IF rq.body = Nil THEN [body |-> "http.NoBody", err |-> NoError]
    ELSE [body |-> rq.body, err |-> NoError]

\* (r *request) requestBody
requestBody(rq) ==
    IF rq.bodyErr # Nil THEN [body |-> Nil, err |-> Error(rq.bodyErr)]
    ELSE IF rq.body = Nil THEN [body |-> "http.NoBody", err |-> NoError]
    ELSE [body |-> rq.body, err |-> NoError]

\* http.NewRequestWithContext rejects a method that is not a token
validMethod(m) == m \in {MethodGet, "POST"}

\* createRequest, the context part: a positive timeout derives a context
\* and stores its CancelFunc on the request
deriveScope(rq) ==
    IF rq.timeout > 0 THEN [state |-> "live", remaining |-> rq.timeout]
    ELSE NoScope

\* createRequest binding the outbound request to the caller's context even
\* when it derived one
boundRequest_callerCtx(rq) ==
    IF rq.timeout > 0 THEN [rq EXCEPT !.cancel = "cancel", !.ctx = "caller"]
    ELSE [rq EXCEPT !.ctx = "caller"]

\* createRequest not storing the CancelFunc on the request
boundRequest_noHandle(rq) ==
    [rq EXCEPT !.ctx = IF rq.timeout > 0 THEN "scope" ELSE "caller"]

\* createRequest, the fields it writes on the request
boundRequest(rq) ==
    IF rq.timeout > 0 THEN [rq EXCEPT !.cancel = "cancel", !.ctx = "scope"]
    ELSE [rq EXCEPT !.ctx = "caller"]

\* The first place of c in s, 0 when it is not there (strings.Index + 1)
indexOf(s, c) ==
    IF \E i \in 1..Len(s) : s[i] = c
    THEN CHOOSE i \in 1..Len(s) : s[i] = c /\ \A j \in 1..(i - 1) : s[j] # c
    ELSE 0

RECURSIVE Join(_)
\* The string a sequence of its pieces spells
Join(ts) == IF ts = << >> THEN "" ELSE Head(ts) \o Join(Tail(ts))

\* url.Parse, the RawQuery of the URL: what follows the first "?"
rawQuery(u) ==
    LET i == indexOf(u, "?") IN IF i = 0 THEN << >> ELSE SubSeq(u, i + 1, Len(u))

RECURSIVE parseQuery(_)
\* url.ParseQuery: the key=value pairs between the "&", in their order
parseQuery(q) ==
    IF q = << >> THEN << >>
    ELSE LET i == indexOf(q, "&")
             part == IF i = 0 THEN q ELSE SubSeq(q, 1, i - 1)
             rest == IF i = 0 THEN << >> ELSE SubSeq(q, i + 1, Len(q))
             e == indexOf(part, "=")
             pair == [key |-> Join(IF e = 0 THEN part ELSE SubSeq(part, 1, e - 1)),
                      value |-> Join(IF e = 0 THEN << >>
                                     ELSE SubSeq(part, e + 1, Len(part)))]
         IN  IF part = << >> THEN parseQuery(rest)
             ELSE <<pair>> \o parseQuery(rest)

\* The keys an outbound query may carry: those of the mapping and one that
\* only a URL names
UrlKeys == QueryKeys \cup {"w"}

\* req.URL.Query(): the values the URL itself carries under every key
urlQuery(u) ==
    [k \in UrlKeys |->
        LET ps == SelectSeq(parseQuery(rawQuery(u)), LAMBDA p : p.key = k)
        IN  [i \in 1..Len(ps) |-> ps[i].value]]

\* The query loop keeping the first value of a key instead of the last
queryOut_first(m) ==
    [k \in DOMAIN m |-> IF m[k] = << >> THEN << >> ELSE <<m[k][1]>>]

\* createRequest, the query loop: query.Set(k, v) for every value in turn
queryOut(m) ==
    [k \in DOMAIN m |-> IF m[k] = << >> THEN << >> ELSE <<m[k][Len(m[k])]>>]

\* createRequest, req.URL.RawQuery: the query of the URL with the keys of
\* the mapping set over it
rawQueryOut(u, m) ==
    LET set == queryOut(m)
    IN  [k \in UrlKeys |-> IF k \in DOMAIN set /\ set[k] # << >> THEN set[k]
                           ELSE urlQuery(u)[k]]

\* createRequest, the *http.Request it returns
outbound(rq, hs, qs, body) ==
    [method |-> rq.method, url |-> requestUrl(rq), header |-> hs[rq.headers],
     query |-> rawQueryOut(requestUrl(rq), qs[rq.queryParams]), body |-> body]

\* createLog, as far as the records differ
createLog(r, statusCode) ==
    [request |-> r, method |-> req[r].method, statusCode |-> statusCode]

\* The function do defers: the logger is given a record when do returns no
\* error and logging is enabled on the request
deferredLog(r, e, statusCode, sink) ==
    IF e = NoError /\ req[r].isLogEnabled
    THEN Append(sink, createLog(r, statusCode)) ELSE sink

NilResult == [kind |-> Nil]
Returned(result, e) == [returned |-> TRUE, result |-> result, err |-> e]

\* DoStream, the three headers it sets before do is called
streamHeaders(h) ==
    MapSet(MapSet(MapSet(h, headerAccept, ContentTypeTextEventStream),
                  headerCacheControl, "no-cache"),
           headerConnection, "keep-alive")

\* The execution methods up to the transport call: Do, DoCtx and DoStream
\* enter do, which resolves the body, creates the request and hands it to
\* r.client.client.Do.
Start(r, m) ==
    /\ pc[r] = "builder"
    /\ mode' = [mode EXCEPT ![r] = m]
    /\ hheap' = IF m = "DoStream"
                THEN [hheap EXCEPT ![req[r].headers] = streamHeaders(@)]
                ELSE hheap
    /\ LET rb == requestBody(req[r]) IN
       IF rb.err # NoError
       THEN /\ ret' = [ret EXCEPT ![r] = Returned(NilResult, rb.err)]
            /\ logs' = deferredLog(r, rb.err, 0, logs)
            /\ pc' = [pc EXCEPT ![r] = "done"]
            /\ UNCHANGED <<req, scope, wire, dispatched, tres>>
       ELSE /\ req' = [req EXCEPT ![r] = boundRequest(@)]
            /\ scope' = [scope EXCEPT ![r] = deriveScope(req[r])]
            /\ IF ~validMethod(req[r].method)
               THEN /\ ret' = [ret EXCEPT ![r] =
                                 Returned(NilResult, Error("net/http: invalid method"))]
                    /\ logs' = deferredLog(r, Error("net/http: invalid method"),
                                           0, logs)
                    /\ pc' = [pc EXCEPT ![r] = "done"]
                    /\ UNCHANGED <<wire, dispatched, tres>>
               ELSE /\ wire' = [wire EXCEPT ![r] =
                                  outbound(req[r], hheap', qheap, rb.body)]
                    /\ dispatched' = [dispatched EXCEPT ![r] = @ + 1]
                    /\ tres' = [tres EXCEPT ![r] = [kind |-> "pending"]]
                    /\ pc' = [pc EXCEPT ![r] = "dispatch"]
                    /\ UNCHANGED <<ret, logs>>
    /\ UNCHANGED <<client, qheap, callerCtx, cancelCalls, arrived, bodyRead,
                   bodyClosed, stream, lastRecv, received, respErr, await>>

\* ------------------------------------------------- transport and server
\* http.StatusText, as far as the status line goes
StatusLine(code) == <<code, "status text">>

ResponseBodies == {<< >>, [i \in 1..MaxBody |-> i]}
\* The headers of a response, as far as they differ between responses
ResponseHeaders(b) == <<"Content-Length", Len(b)>>

\* The responses the server may give
ServerResponses ==
    {[statusCode |-> c, status |-> StatusLine(c), headers |-> ResponseHeaders(b),
      body |-> b] : c \in Statuses, b \in ResponseBodies}

dispatchVars == <<client, hheap, qheap, req, mode, callerCtx, scope,
                  cancelCalls, wire, dispatched, arrived, bodyRead, bodyClosed,
                  ret, stream, lastRecv, received, respErr, await, logs>>

\* r.client.client.Do returns the response head; the body is still on its way
TransportRespond(r, resp) ==
    /\ pc[r] = "dispatch"
    /\ ~CtxDone(r)
    /\ tres' = [tres EXCEPT ![r] = [kind |-> "resp", resp |-> resp]]
    /\ pc' = [pc EXCEPT ![r] = "returned"]
    /\ UNCHANGED dispatchVars

\* r.client.client.Do fails for a reason of its own (connection refused, ...);
\* ctxErr keeps what context.Cause(r.ctx) was when the transport returned
TransportFail(r) ==
    /\ pc[r] = "dispatch"
    /\ tres' = [tres EXCEPT ![r] = [kind |-> "err", err |-> Error("dial: refused"),
                                   ctxErr |-> CtxErr(r)]]
    /\ pc' = [pc EXCEPT ![r] = "returned"]
    /\ UNCHANGED dispatchVars

\* r.client.client.Do fails because the context of the request is done
TransportAbort(r) ==
    /\ pc[r] = "dispatch"
    /\ CtxDone(r)
    /\ tres' = [tres EXCEPT ![r] = [kind |-> "err", err |-> Error("url.Error"),
                                   ctxErr |-> CtxErr(r)]]
    /\ pc' = [pc EXCEPT ![r] = "returned"]
    /\ UNCHANGED dispatchVars

\* The server writes the next byte of the response body; nothing arrives
\* once the context of the request is done or the body has been closed.
ServerSend(r) ==
    /\ tres[r].kind = "resp"
    /\ ~CtxDone(r)
    /\ ~bodyClosed[r]
    /\ arrived[r] < Len(tres[r].resp.body)
    /\ arrived' = [arrived EXCEPT ![r] = @ + 1]
    /\ UNCHANGED <<client, hheap, qheap, req, pc, mode, callerCtx, scope,
                   cancelCalls, wire, dispatched, tres, bodyRead, bodyClosed,
                   ret, stream, lastRecv, received, respErr, await, logs>>

\* A unit of time passes: every live derived context comes one unit closer
\* to its deadline and expires, with cause ErrRequestTimedOut, on reaching it.
Tick ==
    /\ \E r \in Requests : scope[r].state = "live"
    /\ scope' = [r \in Requests |->
                   IF scope[r].state # "live" THEN scope[r]
                   ELSE IF scope[r].remaining = 1
                        THEN [state |-> "expired", remaining |-> 0]
                        ELSE [scope[r] EXCEPT !.remaining = @ - 1]]
    /\ UNCHANGED <<client, hheap, qheap, req, pc, mode, callerCtx, cancelCalls,
                   wire, dispatched, tres, arrived, bodyRead, bodyClosed, ret,
                   stream, lastRecv, received, respErr, await, logs>>

\* The caller cancels the context it passed to DoCtx or DoStream (Do passes
\* context.Background, which nobody can cancel); a context derived from it
\* is canceled with it.
CallerCancel(r) ==
    /\ mode[r] \in {"DoCtx", "DoStream"}
    /\ callerCtx[r] = "live"
    /\ pc[r] \in {"dispatch", "returned", "read"} \/ (stream[r].open /\ ~bodyClosed[r])
    /\ callerCtx' = [callerCtx EXCEPT ![r] = "canceled"]
    /\ scope' = [scope EXCEPT ![r] = canceled(@)]
    /\ UNCHANGED <<client, hheap, qheap, req, pc, mode, cancelCalls, wire,
                   dispatched, tres, arrived, bodyRead, bodyClosed, ret, stream,
                   lastRecv, received, respErr, await, logs>>

\* ----------------------------------------------------- after the transport
\* do without the select on r.ctx.Done(): the transport's error as it is
doError_raw(r) == tres[r].err

\* do, after r.client.client.Do returned an error: when r.ctx is done the
\* error is replaced by one that wraps context.Cause(r.ctx)
doError(r) == IF CtxDone(r) THEN Wrap(CtxCause(r)) ELSE tres[r].err

\* responseHeader as DoCtx and DoStream fill it
responseHeader(resp) ==
    [status |-> resp.status, statusCode |-> resp.statusCode, headers |-> resp.headers]

\* &response{...}
Response(resp, body) ==
    [kind |-> "response", responseHeader |-> responseHeader(resp), body |-> body]

\* &responseStream{...}: the reader (hence the body) is reached through
\* bodyRead/arrived, the cancel func is the one stored on the request
ResponseStream(resp, cancel) ==
    [kind |-> "stream", responseHeader |-> responseHeader(resp), cancel |-> cancel]

\* DoCtx returning what was read together with the error of the read
doCtxReturn_partial(resp, body, readErr) == Returned(Response(resp, body), readErr)

\* DoCtx after io.ReadAll: the error of the read is returned alone,
\* otherwise the response with the bytes read
doCtxReturn(resp, body, readErr) ==
    IF readErr # NoError THEN Returned(NilResult, readErr)
    ELSE Returned(Response(resp, body), NoError)

\* DoCtx between the return of do and io.ReadAll: an error of do is
\* returned, otherwise r.cancel is invoked when it is not nil
DoCtxAfterDo(r) ==
    /\ pc[r] = "returned"
    /\ mode[r] \in {"Do", "DoCtx", "DoAsync"}
    /\ IF tres[r].kind = "err"
       THEN /\ ret' = [ret EXCEPT ![r] = Returned(NilResult, doError(r))]
            /\ logs' = deferredLog(r, doError(r), 0, logs)
            /\ pc' = [pc EXCEPT ![r] = "done"]
            /\ UNCHANGED <<scope, cancelCalls>>
       ELSE /\ logs' = deferredLog(r, NoError, tres[r].resp.statusCode, logs)
            /\ IF req[r].cancel # Nil
               THEN /\ scope' = [scope EXCEPT ![r] = canceled(@)]
                    /\ cancelCalls' = [cancelCalls EXCEPT ![r] = @ + 1]
               ELSE UNCHANGED <<scope, cancelCalls>>
            /\ pc' = [pc EXCEPT ![r] = "read"]
            /\ UNCHANGED ret
    /\ UNCHANGED <<client, hheap, qheap, req, mode, callerCtx, wire, dispatched,
                   tres, arrived, bodyRead, bodyClosed, stream, lastRecv, received,
                   respErr, await>>

\* DoCtx from io.ReadAll to its return.  ReadAll ends when the whole body
\* has arrived, or fails when the connection was given up before that; the
\* deferred resp.Body.Close runs on either return.
DoCtxReadAll(r) ==
    /\ pc[r] = "read"
    /\ LET body == tres[r].resp.body IN
       \/ /\ arrived[r] = Len(body)
          /\ ret' = [ret EXCEPT ![r] = doCtxReturn(tres[r].resp, body, NoError)]
       \/ /\ arrived[r] < Len(body)
          /\ CtxDone(r)
          /\ ret' = [ret EXCEPT ![r] =
                      doCtxReturn(tres[r].resp, SubSeq(body, 1, arrived[r]),
                                  Error("read: connection closed"))]
    /\ bodyRead' = [bodyRead EXCEPT ![r] = arrived[r]]
    /\ bodyClosed' = [bodyClosed EXCEPT ![r] = TRUE]
    /\ pc' = [pc EXCEPT ![r] = "done"]
    /\ UNCHANGED <<client, hheap, qheap, req, mode, callerCtx, scope, cancelCalls,
                   wire, dispatched, tres, arrived, stream, lastRecv, received,
                   respErr, await, logs>>

\* DoStream invoking r.cancel before it returns, as DoCtx does
DoStreamAfterDo_releases(r) ==
    /\ pc[r] = "returned"
    /\ mode[r] = "DoStream"
    /\ IF tres[r].kind = "err"
       THEN /\ ret' = [ret EXCEPT ![r] = Returned(NilResult, doError(r))]
            /\ logs' = deferredLog(r, doError(r), 0, logs)
            /\ UNCHANGED <<stream, scope, cancelCalls>>
       ELSE /\ logs' = deferredLog(r, NoError, tres[r].resp.statusCode, logs)
            /\ ret' = [ret EXCEPT ![r] =
                         Returned(ResponseStream(tres[r].resp, req[r].cancel), NoError)]
            /\ stream' = [stream EXCEPT ![r] = NewStream]
            /\ IF req[r].cancel # Nil
               THEN /\ scope' = [scope EXCEPT ![r] = canceled(@)]
                    /\ cancelCalls' = [cancelCalls EXCEPT ![r] = @ + 1]
               ELSE UNCHANGED <<scope, cancelCalls>>
    /\ pc' = [pc EXCEPT ![r] = "done"]
    /\ UNCHANGED <<client, hheap, qheap, req, mode, callerCtx, wire, dispatched,
                   tres, arrived, bodyRead, bodyClosed, lastRecv, received, respErr, await>>

\* DoStream after the return of do
DoStreamAfterDo(r) ==
    /\ pc[r] = "returned"
    /\ mode[r] = "DoStream"
    /\ IF tres[r].kind = "err"
       THEN /\ ret' = [ret EXCEPT ![r] = Returned(NilResult, doError(r))]
            /\ logs' = deferredLog(r, doError(r), 0, logs)
            /\ UNCHANGED stream
       ELSE /\ logs' = deferredLog(r, NoError, tres[r].resp.statusCode, logs)
            /\ ret' = [ret EXCEPT ![r] =
                         Returned(ResponseStream(tres[r].resp, req[r].cancel), NoError)]
            /\ stream' = [stream EXCEPT ![r] = NewStream]
    /\ pc' = [pc EXCEPT ![r] = "done"]
    /\ UNCHANGED <<client, hheap, qheap, req, mode, callerCtx, scope, cancelCalls,
                   wire, dispatched, tres, arrived, bodyRead, bodyClosed, lastRecv, received,
                   respErr, await>>

\* ------------------------------------------------------------ the stream
Min(a, b) == IF a < b THEN a ELSE b

\* The size of the buffer of bufio.NewReader (bufio's default size), on the
\* scale of the chunks: the largest chunk asked for is as large as the buffer
defaultBufSize == MaxChunk

EOF == Error("EOF")

\* resp.Body.Read(p) with len(p) = size, bodyRead[r] bytes having been read
\* before.  A response without body bytes has http.NoBody, which reports EOF
\* whether closed or not.  The bytes that have arrived are handed out; with
\* the last of them the body may report EOF at once (eager) or only on the
\* next call, as io.Reader allows.
respBodyRead(r, size, eager) ==
    LET body == tres[r].resp.body
        pos == bodyRead[r]
        k == Min(size, arrived[r] - pos)
    IN  IF bodyClosed[r] /\ body # << >>
        THEN [n |-> 0, bytes |-> << >>,
              err |-> Error("http: read on closed response body")]
        ELSE IF k > 0
        THEN [n |-> k, bytes |-> SubSeq(body, pos + 1, pos + k),
              err |-> IF eager /\ pos + k = Len(body) THEN EOF ELSE NoError]
        ELSE IF arrived[r] = Len(body)
        THEN [n |-> 0, bytes |-> << >>, err |-> EOF]
        ELSE [n |-> 0, bytes |-> << >>, err |-> Error("read: connection closed")]

\* A read from r.reader need not wait
Readable(r) ==
    \/ stream[r].buffered > 0
    \/ stream[r].readerErr # NoError
    \/ bodyClosed[r]
    \/ arrived[r] > bodyRead[r]
    \/ arrived[r] = Len(tres[r].resp.body)
    \/ CtxDone(r)

\* r.reader.Read(b) with len(b) = n, r.reader being the bufio.Reader:
\* n, bytes and err are what it returns, buffered and readerErr what it
\* keeps, taken the number of bytes it read from the body.
\*  - n = 0: nothing is read from the body; no error while bytes are
\*    buffered, otherwise the error kept (or none) is returned and forgotten;
\*  - buffer empty and an error kept: the error is returned and forgotten;
\*  - buffer empty and n at least the size of the buffer: the body is read
\*    into b directly and its bytes and its error are returned together;
\*  - buffer empty otherwise: the body is read into the buffer once and
\*    its error is kept for the next call, unless nothing was read;
\*  - then up to n buffered bytes are copied out, without an error.
readerRead(r, n, eager) ==
    LET st == stream[r]
        body == tres[r].resp.body
    IN  IF n = 0
        THEN IF st.buffered > 0
             THEN [n |-> 0, bytes |-> << >>, err |-> NoError,
                   buffered |-> st.buffered, readerErr |-> st.readerErr,
                   taken |-> 0]
             ELSE [n |-> 0, bytes |-> << >>, err |-> st.readerErr,
                   buffered |-> 0, readerErr |-> NoError, taken |-> 0]
        ELSE IF st.buffered = 0
        THEN IF st.readerErr # NoError
             THEN [n |-> 0, bytes |-> << >>, err |-> st.readerErr,
                   buffered |-> 0, readerErr |-> NoError, taken |-> 0]
             ELSE IF n >= defaultBufSize
             THEN LET rd == respBodyRead(r, n, eager)
                  IN  [n |-> rd.n, bytes |-> rd.bytes, err |-> rd.err,
                       buffered |-> 0, readerErr |-> NoError, taken |-> rd.n]
             ELSE LET rd == respBodyRead(r, defaultBufSize, eager)
                      k == Min(n, rd.n)
                  IN  IF rd.n = 0
                      THEN [n |-> 0, bytes |-> << >>, err |-> rd.err,
                            buffered |-> 0, readerErr |-> NoError, taken |-> 0]
                      ELSE [n |-> k, bytes |-> SubSeq(rd.bytes, 1, k),
                            err |-> NoError, buffered |-> rd.n - k,
                            readerErr |-> rd.err, taken |-> rd.n]
        ELSE LET k == Min(n, st.buffered)
                 pos == bodyRead[r] - st.buffered
             IN  [n |-> k, bytes |-> SubSeq(body, pos + 1, pos + k),
                  err |-> NoError, buffered |-> st.buffered - k,
                  readerErr |-> st.readerErr, taken |-> 0]

\* (r *responseStream) Recv, from the result of r.reader.Read: on an error
\* the slice returned is nil, which holds no bytes
recvResult(rd) ==
    IF rd.err # NoError THEN [called |-> TRUE, bytes |-> << >>, err |-> rd.err]
    ELSE [called |-> TRUE, bytes |-> rd.bytes, err |-> NoError]

streamVars == <<client, hheap, qheap, req, pc, mode, callerCtx, wire,
                dispatched, tres, arrived, ret, respErr, await, logs>>

\* What the calls of r.reader.Read leave behind in the bufio.Reader
readerAfter(st, rd) ==
    [st EXCEPT !.buffered = rd.buffered, !.readerErr = rd.readerErr]

\* (r *responseStream) Recv; the caller appends the slice it got to what it
\* has received
Recv(r, n) ==
    /\ stream[r].open
    /\ n = 0 \/ Readable(r)
    /\ \E eager \in BOOLEAN :
         LET rd == readerRead(r, n, eager)
             res == recvResult(rd)
         IN  /\ lastRecv' = [lastRecv EXCEPT ![r] = res]
             /\ received' = [received EXCEPT ![r] =
                               IF res.err = NoError THEN @ \o res.bytes ELSE @]
             /\ bodyRead' = [bodyRead EXCEPT ![r] = @ + rd.taken]
             /\ stream' = [stream EXCEPT ![r] = readerAfter(@, rd)]
    /\ UNCHANGED <<streamVars, scope, cancelCalls, bodyClosed>>

\* (r *responseStream) RecvFunc with a receiver that reads up to n bytes
\* from the reader it is given, keeps them and returns the error of that
\* read
RecvFunc(r, n) ==
    /\ stream[r].open
    /\ n = 0 \/ Readable(r)
    /\ \E eager \in BOOLEAN :
         LET rd == readerRead(r, n, eager)
         IN  /\ lastRecv' = [lastRecv EXCEPT ![r] =
                               [called |-> TRUE, bytes |-> rd.bytes, err |-> rd.err]]
             /\ received' = [received EXCEPT ![r] = @ \o rd.bytes]
             /\ bodyRead' = [bodyRead EXCEPT ![r] = @ + rd.taken]
             /\ stream' = [stream EXCEPT ![r] = readerAfter(@, rd)]
    /\ UNCHANGED <<streamVars, scope, cancelCalls, bodyClosed>>

closeVars == <<client, hheap, qheap, req, pc, mode, callerCtx, wire,
               dispatched, tres, arrived, ret, respErr, await, logs>>

\* Close without the call of r.cancel
Close_bodyOnly(r) ==
    /\ stream[r].open
    /\ ~bodyClosed[r]
    /\ bodyClosed' = [bodyClosed EXCEPT ![r] = TRUE]
    /\ stream' = [stream EXCEPT ![r].closed = TRUE]
    /\ UNCHANGED <<closeVars, bodyRead, lastRecv, received, scope, cancelCalls>>

\* (r *responseStream) Close
Close(r) ==
    /\ stream[r].open
    /\ ~bodyClosed[r]
    /\ bodyClosed' = [bodyClosed EXCEPT ![r] = TRUE]
    /\ IF ret[r].result.cancel # Nil
       THEN /\ scope' = [scope EXCEPT ![r] = canceled(@)]
            /\ cancelCalls' = [cancelCalls EXCEPT ![r] = @ + 1]
       ELSE UNCHANGED <<scope, cancelCalls>>
    /\ stream' = [stream EXCEPT ![r].closed = TRUE]
    /\ UNCHANGED <<closeVars, bodyRead, lastRecv, received>>

\* ----------------------------------------------------------- the response
\* IsError with the upper bound off by one
IsError_above400(resp) ==
    IF resp.responseHeader.statusCode < 200 \/ resp.responseHeader.statusCode > 400
    THEN [called |-> TRUE, isNil |-> FALSE,
          responseHeader |-> resp.responseHeader, body |-> resp.body]
    ELSE [called |-> TRUE, isNil |-> TRUE]

\* (r *response) IsError
IsError(resp) ==
    IF resp.responseHeader.statusCode < 200 \/ resp.responseHeader.statusCode >= 400
    THEN [called |-> TRUE, isNil |-> FALSE,
          responseHeader |-> resp.responseHeader, body |-> resp.body]
    ELSE [called |-> TRUE, isNil |-> TRUE]

\* The caller asks the response it got from Do/DoCtx whether it is an error
AskIsError(r) ==
    /\ ret[r].returned
    /\ ret[r].result.kind = "response"
    /\ ~respErr[r].called
    /\ respErr' = [respErr EXCEPT ![r] = IsError(ret[r].result)]
    /\ UNCHANGED <<client, hheap, qheap, req, pc, mode, callerCtx, scope,
                   cancelCalls, wire, dispatched, tres, arrived, bodyRead,
                   bodyClosed, ret, stream, lastRecv, received, await, logs>>

\* ---------------------------------------------------------------- DoAsync
\* DoAsync is not among the methods of src/v2/pingo.go; it is modelled as the
\* specification describes it: the execution of Do run once on a goroutine
\* of its own, and its outcome delivered once on a channel.
\* The value DoAsync delivers: the pair Do returned
ResponseAsync(rt) == [Response |-> rt.result, Err |-> rt.err]

\* DoAsync, the goroutine it starts: Do is run (Start with mode "DoAsync",
\* then DoCtx as Do runs it) and, once Do has returned, its outcome is sent
\* on the channel, once
AsyncDeliver(r) ==
    /\ mode[r] = "DoAsync"
    /\ pc[r] = "done"
    /\ await[r].sent = 0
    /\ await' = [await EXCEPT ![r].sent = 1,
                              ![r].chan = Append(@, ResponseAsync(ret[r]))]
    /\ UNCHANGED <<client, hheap, qheap, req, pc, mode, callerCtx, scope,
                   cancelCalls, wire, dispatched, tres, arrived, bodyRead,
                   bodyClosed, ret, stream, lastRecv, received, respErr, logs>>

\* The caller of DoAsync receives from the channel, once
AsyncReceive(r) ==
    /\ await[r].chan # << >>
    /\ ~await[r].got.received
    /\ await' = [await EXCEPT ![r].got = [received |-> TRUE,
                                          value |-> Head(await[r].chan)],
                              ![r].chan = Tail(@)]
    /\ UNCHANGED <<client, hheap, qheap, req, pc, mode, callerCtx, scope,
                   cancelCalls, wire, dispatched, tres, arrived, bodyRead,
                   bodyClosed, ret, stream, lastRecv, received, respErr, logs>>

\* ------------------------------------------------------------- behaviours
Modes == {"Do", "DoCtx", "DoStream"}
Chunks == 1..MaxChunk

\* One request built, with a body of its caller's making or none, and
\* executed
Executing == {1}

Next ==
    \E r \in Executing :
        \/ NewRequest(r)
        \/ \E t \in Timeouts : SetTimeout(r, t)
        \/ \E m \in Methods : SetMethod(r, m)
        \/ \E enc \in EncodeResults("custom") \cup {Encoded(Nil)} : BodyCustom(r, enc)
        \/ \E m \in Modes : Start(r, m)
        \/ \E resp \in ServerResponses : TransportRespond(r, resp)
        \/ TransportFail(r)
        \/ TransportAbort(r)
        \/ ServerSend(r)
        \/ Tick
        \/ CallerCancel(r)
        \/ DoCtxAfterDo(r)
        \/ DoCtxReadAll(r)
        \/ DoStreamAfterDo(r)
        \/ \E n \in Chunks : Recv(r, n)
        \/ \E n \in Chunks : RecvFunc(r, n)
        \/ Close(r)
        \/ AskIsError(r)

Spec == Init /\ [][Next]_vars

\* A client configured while one request is created from it
ClientBaseUrls == {<< >>, <<"h">>}
ClientTimeouts == {0, 1}

ClientSetter ==
    \/ \E u \in ClientBaseUrls : ClientSetBaseUrl(u)
    \/ \E keys \in ArgKeys(UserHeaderKeys), src \in ArgMaps(UserHeaderKeys) :
          ClientSetHeaders(keys, src)
    \/ \E k \in UserHeaderKeys, v \in Values : ClientSetHeader(k, v)
    \/ \E keys \in ArgKeys(UserHeaderKeys), src \in ArgMaps(UserHeaderKeys) :
          ClientAddHeaders(keys, src)
    \/ \E k \in UserHeaderKeys, v \in Values : ClientAddHeader(k, v)
    \/ \E keys \in ArgKeys(QueryKeys), src \in ArgMaps(QueryKeys) :
          ClientSetQueryParams(keys, src)
    \/ \E k \in QueryKeys, v \in Values : ClientSetQueryParam(k, v)
    \/ \E keys \in ArgKeys(QueryKeys), src \in ArgMaps(QueryKeys) :
          ClientAddQueryParams(keys, src)
    \/ \E k \in QueryKeys, v \in Values : ClientAddQueryParam(k, v)
    \/ \E t \in ClientTimeouts : ClientSetTimeout(t)
    \/ \E debug \in BOOLEAN, includeBody \in BOOLEAN : ClientSetDebug(debug, includeBody)
    \/ \E enable \in BOOLEAN : ClientSetLogEnabled(enable)

NextClient ==
    \/ ClientSetter
    \/ \E r \in Executing : NewRequest(r)

SpecClient == Init /\ [][NextClient]_vars

\* Requests of one client configured and handed to the transport side by side
RequestSetter(r) ==
    \/ \E k \in UserHeaderKeys, v \in Values : SetHeader(r, k, v)
    \/ \E k \in UserHeaderKeys, v \in Values : AddHeader(r, k, v)
    \/ \E k \in QueryKeys, v \in Values : SetQueryParam(r, k, v)
    \/ \E k \in QueryKeys, v \in Values : AddQueryParam(r, k, v)

NextSiblings ==
    \E r \in Requests :
        \/ NewRequest(r)
        \/ RequestSetter(r)
        \/ Start(r, "Do")

SpecSiblings == Init /\ [][NextSiblings]_vars

\* The URL of one request assembled from base URLs and paths that end and
\* start with no, one or several slashes and that carry query strings
UrlBases ==
    BaseUrls \cup {<<"h", "/", "/">>, <<"h", "?", "w", "=", "z">>,
                   <<"h", "?", "q", "=", "z", "&", "w", "=", "z">>}
UrlPaths == Paths \cup {<<"/", "/", "p">>, <<"p", "?", "q", "=", "z">>}

NextUrl ==
    \E r \in Executing :
        \/ NewRequest(r)
        \/ \E u \in UrlBases : SetBaseUrl(r, u)
        \/ \E p \in UrlPaths : SetPath(r, p)
        \/ \E k \in QueryKeys, v \in Values : SetQueryParam(r, k, v)
        \/ \E k \in QueryKeys, v \in Values : AddQueryParam(r, k, v)
        \/ Start(r, "Do")

SpecUrl == Init /\ [][NextUrl]_vars

\* One request given headers in bulk under keys that differ in letter case
\* only, and a multipart body
CaseKeys == {"x-key", UserHeaderKey}

NextOrder ==
    \E r \in Executing :
        \/ NewRequest(r)
        \/ \E keys \in ArgKeys(CaseKeys), src \in ArgMaps(CaseKeys) :
              SetHeaders(r, keys, src)
        \/ \E keys \in ArgKeys(CaseKeys), src \in ArgMaps(CaseKeys) :
              AddHeaders(r, keys, src)
        \/ \E enc \in EncodeResults("multipart") : BodyMultipartForm(r, enc)
        \/ Start(r, "Do")

SpecOrder == Init /\ [][NextOrder]_vars

\* One request executed with logging enabled or disabled on it
NextLog ==
    \E r \in Executing :
        \/ NewRequest(r)
        \/ \E enabled \in BOOLEAN : SetLogEnabled(r, enabled)
        \/ \E t \in Timeouts : SetTimeout(r, t)
        \/ \E m \in Methods : SetMethod(r, m)
        \/ \E enc \in EncodeResults("custom") : BodyCustom(r, enc)
        \/ \E m \in Modes : Start(r, m)
        \/ \E resp \in ServerResponses : TransportRespond(r, resp)
        \/ TransportFail(r)
        \/ TransportAbort(r)
        \/ ServerSend(r)
        \/ Tick
        \/ DoCtxAfterDo(r)
        \/ DoCtxReadAll(r)
        \/ DoStreamAfterDo(r)

SpecLog == Init /\ [][NextLog]_vars

\* One stream read by a caller that loops on Recv(0) or on RecvFunc with a
\* receiver that reads into an empty slice.  The loop goes on as long as it
\* gets no error, and the server and the transport go on as long as they
\* have something to do.
NextLoop ==
    \E r \in Executing :
        \/ NewRequest(r)
        \/ \E t \in Timeouts : SetTimeout(r, t)
        \/ Start(r, "DoStream")
        \/ \E resp \in ServerResponses : TransportRespond(r, resp)
        \/ TransportFail(r)
        \/ TransportAbort(r)
        \/ ServerSend(r)
        \/ Tick
        \/ DoStreamAfterDo(r)
        \/ Recv(r, 0)
        \/ RecvFunc(r, 0)

SpecLoop ==
    /\ Init
    /\ [][NextLoop]_vars
    /\ \A r \in Executing :
          /\ WF_vars(ServerSend(r))
          /\ WF_vars(DoStreamAfterDo(r))
          /\ WF_vars(Recv(r, 0))
          /\ WF_vars(RecvFunc(r, 0))

\* The headers and query parameters of a client and of a request of it set
\* and added, one key at a time and in bulk, with empty values among them
SetterValues == Values \cup {""}

NextSetters ==
    \/ \E r \in Executing : NewRequest(r)
    \/ \E k \in UserHeaderKeys, v \in SetterValues : ClientSetHeader(k, v)
    \/ \E keys \in ArgKeys(UserHeaderKeys), src \in ArgMaps(UserHeaderKeys) :
          ClientSetHeaders(keys, src)
    \/ \E k \in UserHeaderKeys, v \in SetterValues : ClientAddHeader(k, v)
    \/ \E keys \in ArgKeys(UserHeaderKeys), src \in ArgMaps(UserHeaderKeys) :
          ClientAddHeaders(keys, src)
    \/ \E k \in QueryKeys, v \in SetterValues : ClientSetQueryParam(k, v)
    \/ \E keys \in ArgKeys(QueryKeys), src \in ArgMaps(QueryKeys) :
          ClientSetQueryParams(keys, src)
    \/ \E k \in QueryKeys, v \in SetterValues : ClientAddQueryParam(k, v)
    \/ \E keys \in ArgKeys(QueryKeys), src \in ArgMaps(QueryKeys) :
          ClientAddQueryParams(keys, src)
    \/ \E r \in Executing :
          \/ \E k \in UserHeaderKeys, v \in SetterValues : SetHeader(r, k, v)
          \/ \E keys \in ArgKeys(UserHeaderKeys), src \in ArgMaps(UserHeaderKeys) :
                SetHeaders(r, keys, src)
          \/ \E k \in UserHeaderKeys, v \in SetterValues : AddHeader(r, k, v)
          \/ \E keys \in ArgKeys(UserHeaderKeys), src \in ArgMaps(UserHeaderKeys) :
                AddHeaders(r, keys, src)
          \/ \E k \in QueryKeys, v \in SetterValues : SetQueryParam(r, k, v)
          \/ \E keys \in ArgKeys(QueryKeys), src \in ArgMaps(QueryKeys) :
                SetQueryParams(r, keys, src)
          \/ \E k \in QueryKeys, v \in SetterValues : AddQueryParam(r, k, v)
          \/ \E keys \in ArgKeys(QueryKeys), src \in ArgMaps(QueryKeys) :
                AddQueryParams(r, keys, src)

SpecSetters == Init /\ [][NextSetters]_vars

\* One request executed by DoAsync
NextAsync ==
    \E r \in Executing :
        \/ NewRequest(r)
        \/ \E t \in Timeouts : SetTimeout(r, t)
        \/ \E enc \in EncodeResults("custom") : BodyCustom(r, enc)
        \/ Start(r, "DoAsync")
        \/ \E resp \in ServerResponses : TransportRespond(r, resp)
        \/ TransportFail(r)
        \/ TransportAbort(r)
        \/ ServerSend(r)
        \/ Tick
        \/ DoCtxAfterDo(r)
        \/ DoCtxReadAll(r)
        \/ AsyncDeliver(r)
        \/ AsyncReceive(r)

SpecAsync == Init /\ [][NextAsync]_vars

\* One request given bodies by any of the body setters, one call after the
\* other, and handed to the transport
NextEncode ==
    \E r \in Executing :
        \/ NewRequest(r)
        \/ \E m \in Methods : SetMethod(r, m)
        \/ \E enc \in EncodeResults("json") : BodyJson(r, enc)
        \/ \E enc \in EncodeResults("xml") : BodyXml(r, enc)
        \/ BodyFormUrlEncoded(r)
        \/ \E enc \in EncodeResults("custom") \cup {Encoded(Nil)} : BodyCustom(r, enc)
        \/ BodyRaw(r)
        \/ \E enc \in EncodeResults("multipart") : BodyMultipartForm(r, enc)
        \/ \E m \in Modes : Start(r, m)

SpecEncode == Init /\ [][NextEncode]_vars

\* Requests of one client given bodies, or none, and handed to the transport
NextBodies ==
    \E r \in Requests :
        \/ NewRequest(r)
        \/ \E enc \in EncodeResults("json") : BodyJson(r, enc)
        \/ BodyRaw(r)
        \/ Start(r, "Do")

SpecBodies == Init /\ [][NextBodies]_vars

\* ================================================================= claims
Buffered(r) == mode[r] \in {"Do", "DoCtx"}

\* C1: when the derived context of a request with a positive timeout has
\* expired while the transport call is pending, the transport call ends
\* with an error, and the execution method then returns no result and an
\* error that errors.Is(err, ErrRequestTimedOut).
C1_TimeoutAbortsCall ==
    [][\A r \in Requests :
        /\ (pc[r] = "dispatch" /\ scope[r].state = "expired" /\ pc'[r] # pc[r])
              => tres'[r].kind = "err"
        /\ (pc[r] = "returned" /\ scope[r].state = "expired"
              /\ tres[r].kind = "err" /\ pc'[r] = "done")
              => /\ ret'[r].result = NilResult
                 /\ ErrorsIs(ret'[r].err, ErrRequestTimedOut)]_vars

C1_Witness ==
    \E r \in Requests :
        /\ Buffered(r) /\ pc[r] = "done" /\ req[r].timeout > 0
        /\ scope[r].state = "expired"
        /\ tres[r].kind = "err" /\ tres[r].err = Error("url.Error")
        /\ ret[r].result = NilResult
        /\ ErrorsIs(ret[r].err, ErrRequestTimedOut)

\* C2: an execution of a request whose last body setter stored an error
\* returns exactly that error and no result, and the request never reaches
\* the transport.
C2_BodyErrorReturned ==
    \A r \in Requests :
        (ret[r].returned /\ req[r].bodyErr # Nil)
            => /\ ret[r] = Returned(NilResult, Error(req[r].bodyErr))
               /\ dispatched[r] = 0
               /\ wire[r] = NoWire
               /\ tres[r] = NoTransport

C2_Witness ==
    \E r \in Requests :
        /\ ret[r].returned /\ req[r].bodyErr = "E2" /\ mode[r] = "DoStream"
        /\ ret[r].err = Error("E2")

\* C3: every return of Do, DoCtx and DoStream carries either a result or an
\* error, never both and never neither.
C3_ResultXorError ==
    \A r \in Requests :
        ret[r].returned => ((ret[r].result = NilResult) <=> (ret[r].err # NoError))

C3_Witness ==
    \E r \in Requests :
        /\ Buffered(r) /\ ret[r].returned
        /\ tres[r].kind = "resp" /\ arrived[r] < Len(tres[r].resp.body)
        /\ ret[r].result = NilResult /\ ret[r].err # NoError

\* The exchange of r went through: the transport returned a response and
\* neither the deadline nor the caller ended the request.
Undisturbed(r) ==
    /\ tres[r].kind = "resp"
    /\ scope[r].state # "expired"
    /\ callerCtx[r] = "live"

\* C4: whatever status code the server answers with, a Do/DoCtx whose
\* exchange went through returns a response with that status code and body
\* and a nil error.
C4_StatusNeverAnError ==
    \A r \in Requests :
        (Buffered(r) /\ pc[r] = "done" /\ Undisturbed(r))
            => /\ ret[r].err = NoError
               /\ ret[r].result = Response(tres[r].resp, tres[r].resp.body)

\* C5: IsError returns an error exactly for the status codes below 200 and
\* from 400 on; the error carries the response's status, status code,
\* headers and body; the request is not dispatched again and the response
\* is as the execution returned it.
C5_IsErrorRange ==
    \A r \in Requests :
        respErr[r].called =>
            LET resp == ret[r].result
                code == resp.responseHeader.statusCode
            IN  /\ (~respErr[r].isNil) <=> (code < 200 \/ code >= 400)
                /\ ~respErr[r].isNil =>
                     /\ respErr[r].responseHeader = resp.responseHeader
                     /\ respErr[r].body = resp.body
                /\ dispatched[r] = 1
                /\ resp = Response(tres[r].resp, tres[r].resp.body)

C5_Witness ==
    \E r \in Requests :
        /\ respErr[r].called /\ ~respErr[r].isNil
        /\ ret[r].result.responseHeader.statusCode = 400
        /\ respErr[r].body = ret[r].result.body /\ respErr[r].body # << >>

\* What request r is executed with: its headers and query parameters (the
\* maps its fields refer to), base URL, timeout and flags.
Effective(r) ==
    [headers |-> hheap[req[r].headers], queryParams |-> qheap[req[r].queryParams],
     baseUrl |-> req[r].baseUrl, timeout |-> req[r].timeout, debug |-> req[r].debug,
     debugBody |-> req[r].debugBody, isLogEnabled |-> req[r].isLogEnabled]

\* C6: a Client setter called after Client.NewRequest leaves the headers,
\* query parameters, base URL, timeout and flags of the request created
\* before as they were.
C6_ClientSetterLeavesRequest ==
    [][ClientSetter =>
         \A r \in Requests : req[r].created => Effective(r)' = Effective(r)]_vars

\* C7: a header or query parameter set or added on one request changes
\* neither the headers and query parameters of a sibling request of the same
\* client nor the defaults of the client.
C7_SiblingsIsolated ==
    [][\A r \in Requests :
         RequestSetter(r) =>
            /\ \A o \in Requests \ {r} :
                  req[o].created =>
                     /\ hheap'[req[o].headers] = hheap[req[o].headers]
                     /\ qheap'[req[o].queryParams] = qheap[req[o].queryParams]
            /\ hheap'[client.headers] = hheap[client.headers]
            /\ qheap'[client.queryParams] = qheap[client.queryParams]]_vars

\* C8: in buffered mode the derived cancel func is invoked only after the
\* response body has been read to its end.
C8_CancelAfterRead ==
    \A r \in Requests :
        (Buffered(r) /\ cancelCalls[r] > 0)
            => /\ tres[r].kind = "resp"
               /\ bodyRead[r] = Len(tres[r].resp.body)

C10_CloseReleasesBoth ==
    \A r \in Requests :
        stream[r].closed
            => /\ bodyClosed[r]
               /\ req[r].timeout > 0
                    => /\ cancelCalls[r] = 1
                       /\ scope[r].state \in {"canceled", "expired"}
               /\ req[r].timeout <= 0
                    => /\ ret[r].result.cancel = Nil
                       /\ cancelCalls[r] = 0
                       /\ scope[r] = NoScope

C10_Witness ==
    \E r \in Requests :
        /\ stream[r].closed /\ bodyClosed[r]
        /\ req[r].timeout > 0 /\ cancelCalls[r] = 1
        /\ scope[r].state = "canceled" /\ callerCtx[r] = "live"

\* A call of Recv or RecvFunc on the stream of r
Receives(r) == \E n \in Chunks : Recv(r, n) \/ RecvFunc(r, n)

\* The latest Recv or RecvFunc on the stream of r reported the end of the
\* stream
EndReported(r) == lastRecv[r].called /\ lastRecv[r].err = EOF

\* C11: every Recv or RecvFunc made after Close, and every one made after
\* the end of the stream was reported, reports io.EOF and no other error.
C11_ReadsAfterEndAreEOF ==
    [][\A r \in Requests :
         (Receives(r) /\ (stream[r].closed \/ EndReported(r)))
            => lastRecv'[r].err = EOF]_vars

\* s is the beginning of t
IsPrefix(s, t) == Len(s) <= Len(t) /\ s = SubSeq(t, 1, Len(s))

\* The stream of r is neither closed nor cut off by its context
StreamIntact(r) == stream[r].open /\ ~bodyClosed[r] /\ ~CtxDone(r)

\* C12: the slices the successive Recv calls return are, put together, the
\* beginning of the bytes the server streams, and when a call reports an
\* error on a stream that is neither closed nor cut off, the error is
\* io.EOF and the slices returned before are all the bytes streamed.
C12_RecvYieldsStream ==
    \A r \in Requests :
        stream[r].open =>
            /\ IsPrefix(received[r], tres[r].resp.body)
            /\ (lastRecv[r].called /\ lastRecv[r].err # NoError /\ StreamIntact(r))
                  => /\ lastRecv[r].err = EOF
                     /\ received[r] = tres[r].resp.body

\* Every key of the map has at most one value
Single(m) == \A k \in DOMAIN m : Len(m[k]) <= 1

\* From map m to map n all keys but those of keys kept their values
OthersKept(m, n, keys) == \A o \in DOMAIN m \ keys : n[o] = m[o]

\* From m to n key k got the one value v
WroteOne(m, n, k, v) ==
    /\ n[k] = <<v>>
    /\ OthersKept(m, n, {k})
    /\ Single(m) => Single(n)

\* From m to n every key of keys was deleted or got the first value src
\* carries for it, and got it when that value is not empty
WroteMany(m, n, keys, src) ==
    /\ \A k \in keys :
          /\ Len(n[k]) <= 1
          /\ n[k] # << >> => n[k] = <<src[k][1]>>
          /\ (src[k] # << >> /\ src[k][1] # "") => n[k] # << >>
    /\ OthersKept(m, n, keys)
    /\ Single(m) => Single(n)

\* From m to n key k got v behind the values it had
AddedOne(m, n, k, v) ==
    /\ n[k] = m[k] \o <<v>>
    /\ OthersKept(m, n, {k})

\* From m to n every key of keys got the values src carries for it behind
\* the values it had
AddedMany(m, n, keys, src) ==
    /\ \A k \in keys : n[k] = m[k] \o src[k]
    /\ OthersKept(m, n, keys)

\* C13: a Set* call leaves the key with exactly one value, the one written
\* (in bulk form: the first value carried for the key, or no value), and
\* the other keys as they were, so that a mapping built by Set* calls alone
\* has one value per key; an Add* call appends its values behind the values
\* the key has and removes none.
C13_SetReplacesAddAppends ==
    [][/\ \A k \in UserHeaderKeys, v \in SetterValues :
            /\ ClientSetHeader(k, v) =>
                  WroteOne(hheap[client.headers], hheap'[client.headers], k, v)
            /\ ClientAddHeader(k, v) =>
                  AddedOne(hheap[client.headers], hheap'[client.headers], k, v)
            /\ \A r \in Requests :
                  /\ SetHeader(r, k, v) =>
                        WroteOne(hheap[req[r].headers], hheap'[req[r].headers], k, v)
                  /\ AddHeader(r, k, v) =>
                        AddedOne(hheap[req[r].headers], hheap'[req[r].headers], k, v)
       /\ \A k \in QueryKeys, v \in SetterValues :
            /\ ClientSetQueryParam(k, v) =>
                  WroteOne(qheap[client.queryParams], qheap'[client.queryParams], k, v)
            /\ ClientAddQueryParam(k, v) =>
                  AddedOne(qheap[client.queryParams], qheap'[client.queryParams], k, v)
            /\ \A r \in Requests :
                  /\ SetQueryParam(r, k, v) =>
                        WroteOne(qheap[req[r].queryParams], qheap'[req[r].queryParams], k, v)
                  /\ AddQueryParam(r, k, v) =>
                        AddedOne(qheap[req[r].queryParams], qheap'[req[r].queryParams], k, v)
       /\ \A keys \in ArgKeys(UserHeaderKeys), src \in ArgMaps(UserHeaderKeys) :
            /\ ClientSetHeaders(keys, src) =>
                  WroteMany(hheap[client.headers], hheap'[client.headers], keys, src)
            /\ ClientAddHeaders(keys, src) =>
                  AddedMany(hheap[client.headers], hheap'[client.headers], keys, src)
            /\ \A r \in Requests :
                  /\ SetHeaders(r, keys, src) =>
                        WroteMany(hheap[req[r].headers], hheap'[req[r].headers], keys, src)
                  /\ AddHeaders(r, keys, src) =>
                        AddedMany(hheap[req[r].headers], hheap'[req[r].headers], keys, src)
       /\ \A keys \in ArgKeys(QueryKeys), src \in ArgMaps(QueryKeys) :
            /\ ClientSetQueryParams(keys, src) =>
                  WroteMany(qheap[client.queryParams], qheap'[client.queryParams], keys, src)
            /\ ClientAddQueryParams(keys, src) =>
                  AddedMany(qheap[client.queryParams], qheap'[client.queryParams], keys, src)
            /\ \A r \in Requests :
                  /\ SetQueryParams(r, keys, src) =>
                        WroteMany(qheap[req[r].queryParams], qheap'[req[r].queryParams],
                                  keys, src)
                  /\ AddQueryParams(r, keys, src) =>
                        AddedMany(qheap[req[r].queryParams], qheap'[req[r].queryParams],
                                  keys, src)]_vars

\* A header set and then added to, and a query parameter added to and then
\* set, on a request
C13_Witness ==
    \E r \in Requests :
        /\ pc[r] = "builder"
        /\ hheap[req[r].headers][UserHeaderKey] = <<"b", "a">>
        /\ qheap[req[r].queryParams]["q"] = <<"a">>
        /\ hheap[req[r].headers][headerUserAgent] = <<headerUserAgentDefaultValue>>

\* The bulk argument src carries the empty string for key k
CarriesEmpty(src, k) == src[k] # << >> /\ src[k][1] = ""

\* C14: a Set* call whose new value for a key is the empty string removes
\* the key from the mapping: on the client and on a request, for headers
\* and for query parameters, one key at a time and in bulk.
C14_SetEmptyDeletes ==
    [][/\ \A k \in UserHeaderKeys :
            /\ ClientSetHeader(k, "") => hheap'[client.headers][k] = << >>
            /\ \A r \in Requests :
                  SetHeader(r, k, "") => hheap'[req[r].headers][k] = << >>
       /\ \A k \in QueryKeys :
            /\ ClientSetQueryParam(k, "") => qheap'[client.queryParams][k] = << >>
            /\ \A r \in Requests :
                  SetQueryParam(r, k, "") => qheap'[req[r].queryParams][k] = << >>
       /\ \A keys \in ArgKeys(UserHeaderKeys), src \in ArgMaps(UserHeaderKeys) :
            /\ ClientSetHeaders(keys, src) =>
                  \A k \in keys :
                     CarriesEmpty(src, k) => hheap'[client.headers][k] = << >>
            /\ \A r \in Requests :
                  SetHeaders(r, keys, src) =>
                     \A k \in keys :
                        CarriesEmpty(src, k) => hheap'[req[r].headers][k] = << >>
       /\ \A keys \in ArgKeys(QueryKeys), src \in ArgMaps(QueryKeys) :
            /\ ClientSetQueryParams(keys, src) =>
                  \A k \in keys :
                     CarriesEmpty(src, k) => qheap'[client.queryParams][k] = << >>
            /\ \A r \in Requests :
                  SetQueryParams(r, keys, src) =>
                     \A k \in keys :
                        CarriesEmpty(src, k) => qheap'[req[r].queryParams][k] = << >>]_vars

\* C15: when the caller cancels the context it passed to DoCtx or DoStream
\* while the transport call is pending and the deadline has not been
\* reached, the transport call ends with an error, and the execution
\* method then returns no result and an error whose cause is the caller's
\* cancellation: errors.Is(err, context.Canceled) holds and
\* errors.Is(err, ErrRequestTimedOut) does not.
C15_CallerCancelAbortsCall ==
    [][\A r \in Requests :
        /\ (pc[r] = "dispatch" /\ callerCtx[r] = "canceled"
              /\ scope[r].state # "expired" /\ pc'[r] # pc[r])
              => tres'[r].kind = "err"
        /\ (pc[r] = "returned" /\ callerCtx[r] = "canceled"
              /\ scope[r].state # "expired"
              /\ tres[r].kind = "err" /\ pc'[r] = "done")
              => /\ ret'[r].result = NilResult
                 /\ ErrorsIs(ret'[r].err, ContextCanceled)
                 /\ ~ErrorsIs(ret'[r].err, ErrRequestTimedOut)]_vars

C15_Witness ==
    \E r \in Requests :
        /\ mode[r] = "DoCtx" /\ pc[r] = "done" /\ req[r].timeout > 1
        /\ callerCtx[r] = "canceled"
        /\ scope[r] = [state |-> "canceled", remaining |-> 1]
        /\ tres[r].kind = "err" /\ tres[r].err = Error("url.Error")
        /\ ret[r].result = NilResult
        /\ ErrorsIs(ret[r].err, ContextCanceled)

\* C16: DoAsync runs the execution of Do once and sends one value on its
\* channel; what is sent, and what the caller receives, is the pair Do
\* returned: a response and a nil error whenever the exchange went through,
\* whatever the status code, and no response and an error that is
\* ErrRequestTimedOut when the deadline ended the transport call.
C16_AsyncDeliversDoOnce ==
    \A r \in Requests :
        mode[r] = "DoAsync" =>
            /\ dispatched[r] <= 1
            /\ await[r].sent <= 1
            /\ Len(await[r].chan) <= 1
            /\ await[r].sent = 1 =>
                  /\ ret[r].returned
                  /\ await[r].chan # << >> =>
                        Head(await[r].chan) = ResponseAsync(ret[r])
                  /\ await[r].got.received =>
                        await[r].got.value = ResponseAsync(ret[r])
                  /\ Undisturbed(r) =>
                        /\ ret[r].err = NoError
                        /\ ret[r].result = Response(tres[r].resp, tres[r].resp.body)
                  /\ (tres[r].kind = "err" /\ scope[r].state = "expired") =>
                        /\ ret[r].result = NilResult
                        /\ ErrorsIs(ret[r].err, ErrRequestTimedOut)

\* No body setter was called on request r
NoBodySet(r) == req[r].created /\ req[r].body = Nil /\ req[r].bodyErr = Nil

\* C17: a request on which no body setter was called is handed to the
\* transport with an empty body and without a Content-Type header, whatever
\* was done before with other requests of the same client.
C17_NoBodyNoContentType ==
    \A r \in Requests :
        (NoBodySet(r) /\ wire[r] # NoWire)
            => /\ wire[r].body = "http.NoBody"
               /\ wire[r].header[headerContentType] = << >>

\* The results the encoders of the body setters may hand back
AllEncodeResults ==
    EncodeResults("json") \cup EncodeResults("xml") \cup EncodeResults("custom")
        \cup EncodeResults("multipart")

\* A body setter called on r whose encoder handed back enc
SetsBody(r, enc) ==
    \/ BodyJson(r, enc)
    \/ BodyXml(r, enc)
    \/ BodyCustom(r, enc)
    \/ BodyMultipartForm(r, enc)
    \/ enc = Encoded("form") /\ BodyFormUrlEncoded(r)
    \/ enc = Encoded("raw") /\ BodyRaw(r)

\* C18: after a body setter the stored body and the stored error are those
\* of that call, whatever was stored before, so never both are stored; the
\* execution then hands the stored body to the transport, or returns the
\* stored error.
C18_LastBodySetterWins ==
    [][\A r \in Requests :
        /\ \A enc \in AllEncodeResults \cup {Encoded("form"), Encoded("raw")} :
              SetsBody(r, enc) =>
                 /\ req'[r].body = enc.body
                 /\ req'[r].bodyErr = enc.err
        /\ (pc[r] = "builder" /\ pc'[r] = "dispatch")
              => /\ req[r].bodyErr = Nil
                 /\ wire'[r].body =
                       IF req[r].body = Nil THEN "http.NoBody" ELSE req[r].body
        /\ (pc[r] = "builder" /\ pc'[r] = "done" /\ req[r].bodyErr # Nil)
              => ret'[r].err = Error(req[r].bodyErr)]_vars

\* A raw body handed to the transport after BodyJson had been called, and
\* the other way round an error returned after BodyMultipartForm succeeded
C18_Witness ==
    \E r \in Requests :
        \/ /\ pc[r] = "dispatch"
           /\ wire[r].body = "raw"
           /\ wire[r].header[headerContentType] = <<ContentTypeJson>>
           /\ req[r].bodyErr = Nil
        \/ /\ pc[r] = "done"
           /\ ret[r].err = Error("E1")
           /\ hheap[req[r].headers][headerContentType] = <<ContentTypeMultipart>>
           /\ req[r].body = Nil

\* C19: the build step of an execution derives a context, with the
\* effective timeout as its deadline, and stores a cancel func on the
\* request exactly when the effective timeout is positive; otherwise the
\* request is bound to the caller's context and the cancel func stays nil.
\* What the build step stored stays as it is.
C19_ScopeIffTimeoutPositive ==
    [][\A r \in Requests :
        /\ (req[r].created /\ req[r].ctx = Nil /\ req'[r].ctx # Nil)
              => IF req[r].timeout > 0
                 THEN /\ req'[r].ctx = "scope"
                      /\ req'[r].cancel # Nil
                      /\ scope'[r] = [state |-> "live", remaining |-> req[r].timeout]
                 ELSE /\ req'[r].ctx = "caller"
                      /\ req'[r].cancel = Nil
                      /\ scope'[r] = NoScope
        /\ (req[r].created /\ req[r].ctx # Nil)
              => /\ req'[r].ctx = req[r].ctx
                 /\ req'[r].cancel = req[r].cancel
                 /\ (req[r].cancel # Nil) <=> (req[r].timeout > 0)
                 /\ (scope[r] # NoScope) <=> (req[r].timeout > 0)
                 /\ scope[r].state = "expired" => CtxCause(r) = ErrRequestTimedOut]_vars

C19_Witness ==
    \E r \in Requests :
        /\ pc[r] = "dispatch" /\ req[r].timeout = MaxTimeout
        /\ req[r].ctx = "scope" /\ req[r].cancel # Nil
        /\ scope[r] = [state |-> "live", remaining |-> MaxTimeout]

\* C20: an execution returns an error that is ErrRequestTimedOut only when
\* the derived context had expired by the time the transport returned.
C20_TimeoutOnlyIfExpiredBefore ==
    \A r \in Requests :
        (ret[r].returned /\ ErrorsIs(ret[r].err, ErrRequestTimedOut))
            => /\ tres[r].kind = "err"
               /\ tres[r].ctxErr = ErrRequestTimedOut

\* A read from the reader of the stream of r has to read from the
\* connection: nothing is buffered, no error is kept, all bytes that have
\* arrived have been read and the body has not ended
NeedsConnection(r) ==
    /\ stream[r].buffered = 0
    /\ stream[r].readerErr = NoError
    /\ bodyRead[r] = arrived[r]
    /\ arrived[r] < Len(tres[r].resp.body)

\* C21: once the derived context of a stream that has not been closed has
\* expired, the connection delivers no further byte of the body and every
\* Recv or RecvFunc that has to read from the connection reports an error
\* (not the end of the stream) and hands out no bytes.
C21_TimeoutBoundsStream ==
    [][\A r \in Requests :
         (stream[r].open /\ ~stream[r].closed /\ scope[r].state = "expired")
            => /\ arrived'[r] = arrived[r]
               /\ (Receives(r) /\ NeedsConnection(r))
                     => /\ lastRecv'[r].err # NoError
                        /\ lastRecv'[r].err # EOF
                        /\ received'[r] = received[r]]_vars

C21_Witness ==
    \E r \in Requests :
        /\ stream[r].open /\ ~stream[r].closed
        /\ req[r].timeout > 0 /\ scope[r].state = "expired"
        /\ callerCtx[r] = "live"
        /\ received[r] # << >> /\ NeedsConnection(r)
        /\ lastRecv[r].called
        /\ lastRecv[r].err = Error("read: connection closed")

\* C22: in the outbound request every key that the query-parameter mapping
\* of the request holds carries exactly one value, the last one stored under
\* it, whatever the URL carried for that key, and every other key carries
\* what the query string of the URL carries for it.
C22_QueryLastValueWins ==
    [][\A r \in Requests :
         (Start(r, "Do") /\ wire'[r] # wire[r])
            => LET m == qheap[req[r].queryParams]
                   inUrl == urlQuery(wire'[r].url)
               IN  \A k \in UrlKeys :
                      wire'[r].query[k] =
                         IF k \in DOMAIN m /\ m[k] # << >>
                         THEN <<m[k][Len(m[k])]>> ELSE inUrl[k]]_vars

C22_Witness ==
    \E r \in Requests :
        /\ pc[r] = "dispatch"
        /\ Len(qheap[req[r].queryParams]["q"]) = 2
        /\ qheap[req[r].queryParams]["q"][1] # qheap[req[r].queryParams]["q"][2]
        /\ urlQuery(wire[r].url)["q"] = <<"z">>
        /\ urlQuery(wire[r].url)["w"] = <<"z">>
        /\ wire[r].query["q"] = <<qheap[req[r].queryParams]["q"][2]>>
        /\ wire[r].query["w"] = <<"z">>

\* s without one c at its end, and without one c at its start
LessOneAtEnd(s, c) ==
    IF s # << >> /\ s[Len(s)] = c THEN SubSeq(s, 1, Len(s) - 1) ELSE s
LessOneAtStart(s, c) == IF s # << >> /\ s[1] = c THEN Tail(s) ELSE s

\* C23 as stated: the URL handed to the transport is the base URL without
\* one trailing slash, a single slash, and the path without one leading
\* slash, whatever the base URL and the path are.
C23_TrimsOneSlash ==
    \A r \in Requests :
        wire[r] # NoWire
           => wire[r].url = LessOneAtEnd(req[r].baseUrl, "/") \o <<"/">>
                               \o LessOneAtStart(req[r].path, "/")

\* The part of s that is left without the c at its end: the prefix of s that
\* does not end with c and is followed by nothing but c
WithoutTrailing(s, c) ==
    CHOOSE t \in {SubSeq(s, 1, n) : n \in 0..Len(s)} :
        /\ t = << >> \/ t[Len(t)] # c
        /\ \A i \in (Len(t) + 1)..Len(s) : s[i] = c
\* and without the c at its start
WithoutLeading(s, c) ==
    CHOOSE t \in {SubSeq(s, n, Len(s)) : n \in 1..(Len(s) + 1)} :
        /\ t = << >> \/ t[1] # c
        /\ \A i \in 1..(Len(s) - Len(t)) : s[i] = c

\* C23, amended: the URL handed to the transport is the base URL without all
\* of its trailing slashes and the path without all of its leading slashes,
\* joined by a single slash when both are left non-empty, and the one that
\* is left alone when the other is empty.
C23_TrimsEverySlash ==
    \A r \in Requests :
        wire[r] # NoWire
           => LET b == WithoutTrailing(req[r].baseUrl, "/")
                  p == WithoutLeading(req[r].path, "/")
              IN  wire[r].url = IF p = << >> THEN b
                                ELSE IF b = << >> THEN p
                                ELSE b \o <<"/">> \o p

C23_Witness ==
    \E r \in Requests :
        /\ wire[r] # NoWire
        /\ req[r].baseUrl = <<"h", "/", "/">>
        /\ req[r].path = <<"/", "/", "p">>
        /\ wire[r].url = <<"h", "/", "p">>

\* C24: the header mapping that SetHeaders or AddHeaders leaves on a request,
\* which is the header mapping of the outbound request, is the same in
\* whatever order the keys of the argument are visited, also when keys of
\* the argument differ in letter case only.
C24_BuildIsDeterministic ==
    [][\A r \in Requests, keys \in ArgKeys(CaseKeys), src \in ArgMaps(CaseKeys) :
         /\ SetHeaders(r, keys, src)
               => \A o \in Orders(keys) :
                     hheap'[req[r].headers] =
                        setHeaderValues(src, hheap[req[r].headers], o)
         /\ AddHeaders(r, keys, src)
               => \A o \in Orders(keys) :
                     hheap'[req[r].headers] =
                        addHeaderValues(src, hheap[req[r].headers], o)]_vars

\* The request holds the error e of the encoder and no body
HoldsErrorOnly(rq, e) == rq.bodyErr = e /\ rq.body = Nil

\* C25: a body setter whose encoder fails stores the error and no body; the
\* Content-Type header then holds the content type of the operation after
\* BodyJson and BodyXml, and what it held before after BodyMultipartForm
\* and BodyCustom.
C25_FailedEncodeKeepsHeader ==
    [][\A r \in Requests, e \in BodyErrors :
         LET before == hheap[req[r].headers][headerContentType]
             after == hheap'[req[r].headers][headerContentType]
         IN  /\ BodyJson(r, Failed(e))
                   => HoldsErrorOnly(req'[r], e) /\ after = <<ContentTypeJson>>
             /\ BodyXml(r, Failed(e))
                   => HoldsErrorOnly(req'[r], e) /\ after = <<ContentTypeXml>>
             /\ BodyMultipartForm(r, Failed(e))
                   => HoldsErrorOnly(req'[r], e) /\ after = before
             /\ BodyCustom(r, Failed(e))
                   => HoldsErrorOnly(req'[r], e) /\ after = before]_vars

C25_Witness ==
    \E r \in Requests :
        /\ pc[r] = "builder"
        /\ req[r].bodyErr \in BodyErrors /\ req[r].body = Nil
        /\ hheap[req[r].headers][headerContentType] = <<ContentTypeXml>>

\* The records the logger has been given for the execution of request r
RecordsOf(r) == {i \in 1..Len(logs) : logs[i].request = r}

\* C26: once an execution call of a request has returned, with a result or
\* with any error, the logger has been given exactly one record for it when
\* logging is enabled on the request, and none when it is disabled.
C26_OneRecordPerAttempt ==
    \A r \in Requests :
        (pc[r] = "done" /\ ret[r].returned)
           => Cardinality(RecordsOf(r)) = IF req[r].isLogEnabled THEN 1 ELSE 0

\* C27: an execution call hands its request to the transport at most once,
\* also after a timeout or a failure of the transport, and not at all when
\* the request holds a body error or http.NewRequestWithContext rejected it.
C27_DispatchedAtMostOnce ==
    \A r \in Requests :
        /\ dispatched[r] <= 1
        /\ (pc[r] \notin {"none", "builder"} /\ req[r].bodyErr # Nil)
              => dispatched[r] = 0 /\ wire[r] = NoWire
        /\ (ret[r].returned /\ ret[r].err = Error("net/http: invalid method"))
              => dispatched[r] = 0 /\ wire[r] = NoWire

C27_Witness ==
    \E r \in Requests :
        /\ ret[r].returned
        /\ ret[r].err = Wrap(ErrRequestTimedOut)
        /\ tres[r].kind = "err"
        /\ dispatched[r] = 1

\* C28: an execution call that fails because the request holds a body error
\* leaves the request and its client as they were: headers, query
\* parameters, cancellation handle and context.
C28_BodyErrorChangesNothing ==
    [][\A r \in Requests :
         ((\E m \in Modes : Start(r, m)) /\ req[r].bodyErr # Nil)
            => /\ req'[r] = req[r]
               /\ client' = client
               /\ hheap'[req[r].headers] = hheap[req[r].headers]
               /\ hheap'[client.headers] = hheap[client.headers]
               /\ qheap' = qheap]_vars

\* C29: once Do or DoCtx has returned, with a response or with any error,
\* the cancellation handle of the context that the call derived from the
\* timeout has been invoked, so that no derived context is left live.
C29_BufferedCallReleasesScope ==
    \A r \in Requests :
        (mode[r] \in {"Do", "DoCtx"} /\ pc[r] = "done" /\ ret[r].returned
           /\ req[r].cancel # Nil)
           => cancelCalls[r] >= 1 /\ scope[r].state # "live"

\* C30: once the server has finished a stream that is open, a caller that
\* keeps calling Recv or RecvFunc with its chunk size eventually gets
\* io.EOF from it, so that its loop ends.
C30_LoopReachesEOF ==
    \A r \in Requests :
        (/\ stream[r].open /\ ~stream[r].closed /\ ~bodyClosed[r]
         /\ arrived[r] = Len(tres[r].resp.body))
           ~> (lastRecv[r].called /\ lastRecv[r].err = EOF)

====
